---- MODULE Spec2Model ----
(***************************************************************************)
(* Willhaben realtime crawler backend (src/server/realtime_backend.py).    *)
(*                                                                         *)
(* One asyncio event loop hosts the crawl loop task and the HTTP handlers. *)
(* Tasks interleave only at awaits, so every action below runs from one    *)
(* suspension point of a coroutine to its next one.                        *)
(*                                                                         *)
(* Left out: total_crawled and last_crawl_time (written by crawl_once,     *)
(* only reported), current_proxy_index (get_next_proxy has no caller) and  *)
(* FreeProxyManager's proxy_cache, which only decides which proxies a      *)
(* fetch reports as working.  proxy_list is kept as a set: its order is    *)
(* read by get_next_proxy and GET /proxy/list only.  Of websocket_endpoint *)
(* the ping/pong exchange of the receive loop is left out (it answers the  *)
(* sender only and touches no shared state), and its accept is taken in    *)
(* one step with the registration that follows it.  get_random_headers is  *)
(* taken not to raise, and close_session is not modelled.                  *)
(*                                                                         *)
(* The crawl loop carries a listing as the payload the converter makes of  *)
(* its id and source; what the two extractors build of one advert or one   *)
(* container, field by field, and what the converter makes of that, is     *)
(* followed in `wire` (SpecWire).  Of an advert the keys advertStatus,     *)
(* adTypeId, productId and verticalId are left out (copied to the          *)
(* car_model, never read by the converter), and the except branch of       *)
(* convert_car_model_for_websocket is not modelled: the try block does not *)
(* raise on what the extractors return.  `audience` and `passed` are       *)
(* history variables: no action reads them.                                *)
(***************************************************************************)
EXTENDS Integers, Sequences, FiniteSets, TLC

VARIABLES
    cfg,              \* Config values read by the backend (fixed after start)
    site,             \* ids the target page may show (environment)
    served,           \* kinds of page body the site serves (environment)
    clock,            \* datetime.now(), in seconds since process start
    proxy_list,       \* ProxyManager.proxy_list
    failed_proxies,   \* ProxyManager.failed_proxies
    last_fetch_time,  \* ProxyManager.last_fetch_time (NoTime = None)
    ffp_now,          \* per caller: `now` of its suspended fetch_free_proxies
    seen_ids,         \* WillhabenCrawler.seen_ids
    seen_iter,        \* iteration order of the seen_ids set object
    stats,            \* WillhabenCrawler.stats counters
    is_running,       \* WillhabenCrawler.is_running
    shutdown,         \* shutdown_event has run
    pc,               \* suspension point of the crawl_loop task
    proxy,            \* fetch_page: proxy of the call (NoProxy = None)
    requests,         \* fetch_page: session.get calls issued by the call
    response,         \* fetch_page: what the request of the call came to
    html,             \* fetch_page: value returned by the last call
    page,             \* crawl_once: body handed to the parsers by the last call
    parsers,          \* crawl_once: parsers invoked by the last call, in order
    listings,         \* crawl_once: parsed batch of the last call
    new_listings,     \* crawl_once: value returned by the last call
    active_connections, \* WebSocketManager.active_connections
    bcast,            \* crawl_loop: listings still to broadcast
    sleeping,         \* crawl_loop: argument of the pending asyncio.sleep, in ms
    bidx,             \* broadcast: items its list iterator has yielded
    connection,       \* broadcast: connection of the pending send_text
    disconnected,     \* broadcast: connections whose send_text raised
    send_raised,      \* broadcast: the pending send_text raises on resumption
    audience,         \* history: the connections registered when the
                      \* broadcast in progress was called
    passed,           \* history: ids of the listings passed to broadcast
    ws,               \* per socket: suspension point of its websocket_endpoint
    inbox,            \* per socket: messages handed to the transport, in order
    wire,             \* one advert or container on its way to the payload
    call              \* last ProxyManager method invoked by a client

vars == <<cfg, site, served, clock, proxy_list, failed_proxies,
          last_fetch_time, ffp_now, seen_ids, seen_iter, stats, is_running,
          shutdown, pc, proxy, requests, response, html, page, parsers,
          listings, new_listings, active_connections, bcast, sleeping, bidx,
          connection, disconnected, send_raised, audience, passed, ws, inbox,
          wire, call>>

proxyVars == <<proxy_list, failed_proxies, last_fetch_time>>
storeVars == <<seen_ids, seen_iter, page, parsers, listings, new_listings>>
fetchVars == <<proxy, requests, response, html>>
\* what a broadcast reads and writes
castVars == <<bcast, active_connections, bidx, connection, disconnected,
              send_raised, audience, passed, inbox>>
\* what the crawl_loop task never writes
loopFrame == <<cfg, site, served, clock, is_running, shutdown, ws, wire,
               call>>
\* what the proxy endpoints and the ProxyManager methods never touch
crawlVars == <<served, seen_ids, seen_iter, stats, is_running, shutdown, pc,
               fetchVars, page, parsers, listings, new_listings, castVars,
               sleeping, ws, wire>>

----------------------------------------------------------------------------
(* Bounds of the model *)

MaxId == 3            \* distinct listing ids the site can show
MaxBatch == 3         \* listings parsed out of one page
MaxProxy == 2         \* distinct proxy addresses in the world
MaxRequests == 2      \* page requests issued over a run
MaxClock == 300       \* last instant the clock reaches
WindowCapacity == 2   \* capacity of the recent window (spec: default 1000)
MAX_FREE_PROXIES == 1 \* Config.MAX_FREE_PROXIES, scaled down from 50
MAX_CONNECTIONS == 2  \* Config.MAX_CONNECTIONS, scaled down from 100
MaxConn == 3          \* client sockets that ever connect
MaxWatch == 1         \* client sockets of a small audience
FewIds == 1           \* ids shown by a small site
SomeIds == 2          \* ids shown by a site with listings to tell apart
MaxAttrs == 2         \* attributes of one advert
MaxImages == 1        \* images of one advert

(* Program constants *)

PROXY_FETCH_INTERVAL == 300
MaxTestProxies == 50
TickSeconds == 150    \* granularity of the modelled clock
\* Config.CRAWL_INTERVAL, Config.MIN_DELAY and Config.MAX_DELAY in ms
CRAWL_INTERVAL == 3000
MIN_DELAY == 500
MAX_DELAY == 2000

----------------------------------------------------------------------------
(* Values *)

NoProxy == 0
NoTime == -1
Ids == 1..MaxId
Proxies == 1..MaxProxy
Listing == [id : Ids]
Callers == {"loop", "api"}

Min(a, b) == IF a < b THEN a ELSE b

Range(s) == {s[i] : i \in DOMAIN s}

SeqsUpTo(S, n) == UNION {[1..k -> S] : k \in 0..n}

Perms(S) == {s \in [1..Cardinality(S) -> S] : Range(s) = S}

\* HTTP statuses a response can carry, one per branch of fetch_page
Statuses == {200, 204, 403, 404, 407, 500, 502, 503}
MarkStatuses == {403, 407, 502, 503}
\* session.get raised instead of yielding a response
Exception == -1
Responses == Statuses \cup {Exception}
\* no response yet
NoResponse == 0

\* Client sockets; NoConn when broadcast has no send_text pending
Conns == 1..MaxConn
NoConn == 0
\* No asyncio.sleep pending
NoSleep == 0
\* What random.uniform(MIN_DELAY, MAX_DELAY) can return: the two ends of
\* the range stand for it
Delays == {MIN_DELAY, MAX_DELAY}

\* The structure of a page body, as far as the branches of the parsers
\* tell bodies apart:
\*   rejected   BeautifulSoup(html, 'html.parser') raises
\*   no_script  no __NEXT_DATA__ script, or an empty one
\*   bad_json   json.loads raises JSONDecodeError
\*   no_key     a key on the path to advertSummary is missing
\*   bad_type   a value on that path cannot be subscripted or iterated
\*   ok         advertSummary is a list of adverts
PageKinds == {"rejected", "no_script", "bad_json", "no_key", "bad_type", "ok"}
NoPage == [kind |-> "none", adverts |-> <<>>, containers |-> <<>>]
\* No advert or container under way
NoWire == [stage |-> "none", from |-> "none", input |-> <<>>,
           listing |-> <<>>, payload |-> <<>>]

----------------------------------------------------------------------------
(* ProxyManager *)

\* [p for p in self.proxy_list if p not in self.failed_proxies]
Available(pl, fl) == pl \ fl

\* is_proxy_available without the failed_proxies filter
is_proxy_available_unfiltered(pl, fl) == pl # {}

is_proxy_available(pl, fl) == pl # {} /\ Available(pl, fl) # {}

\* get_random_proxy choosing among the whole proxy_list
get_random_proxy_unfiltered(pl, fl) ==
    IF pl = {} THEN {[proxy |-> NoProxy, failed |-> fl]}
    ELSE {[proxy |-> p, failed |-> fl] : p \in pl}

\* The possible outcomes of get_random_proxy: the proxy returned and the
\* failed set the call leaves behind.
get_random_proxy(pl, fl) ==
    IF pl = {} THEN {[proxy |-> NoProxy, failed |-> fl]}
    ELSE IF Available(pl, fl) = {}
         THEN {[proxy |-> p, failed |-> {}] : p \in pl}
         ELSE {[proxy |-> p, failed |-> fl] : p \in Available(pl, fl)}

\* The failed set after mark_proxy_failed(p); None and "" are falsy.
mark_proxy_failed(p, fl) == IF p # NoProxy THEN fl \cup {p} ELSE fl

\* The early returns of fetch_free_proxies: TRUE when the call goes on to
\* contact the free-proxy sources.
ContactsSources(lft) ==
    /\ cfg.AUTO_FETCH_FREE_PROXY
    /\ ~(lft # NoTime /\ clock - lft < PROXY_FETCH_INTERVAL)

\* What fetch_and_test_proxies can return: working proxies among the first
\* max_test_proxies unique ones.
WorkingProxies ==
    {R \in SUBSET Proxies :
        Cardinality(R) <= Min(MAX_FREE_PROXIES, MaxTestProxies)}

\* proxy_list after fetch_free_proxies got free_proxies
ExtendProxyList(pl, free_proxies) ==
    IF free_proxies # {} THEN pl \cup free_proxies ELSE pl

\* last_fetch_time after fetch_free_proxies got free_proxies
StampFetchTime(lft, now, free_proxies) ==
    IF free_proxies # {} THEN now ELSE lft

\* ProxyManager.get_stats
get_stats ==
    [total_proxies |-> Cardinality(proxy_list),
     available_proxies |-> Cardinality(Available(proxy_list, failed_proxies)),
     failed_proxies |-> Cardinality(failed_proxies)]

----------------------------------------------------------------------------
(* WillhabenCrawler.fetch_page *)

\* ChooseProxy without the is_proxy_available test of line 548
ChooseProxyUnchecked(pl, fl) ==
    IF cfg.USE_PROXY_ROTATION
    THEN get_random_proxy(pl, fl)
    ELSE {[proxy |-> NoProxy, failed |-> fl]}

\* Lines 546-551: the proxy of the call (and the failed set, which
\* get_random_proxy may clear).
ChooseProxy(pl, fl) ==
    IF cfg.USE_PROXY_ROTATION /\ is_proxy_available(pl, fl)
    THEN get_random_proxy(pl, fl)
    ELSE {[proxy |-> NoProxy, failed |-> fl]}

\* MarksOnStatus with a shorter status list
MarksOnStatus403(p, status) == p # NoProxy /\ status \in {403}

\* Lines 565-573: does a non-200 response mark the proxy failed
MarksOnStatus(p, status) == p # NoProxy /\ status \in MarkStatuses

\* Lines 574-582: does an exception mark the proxy failed
MarksOnException(p) == p # NoProxy

Bump(st, field) == [st EXCEPT ![field] = @ + 1]

----------------------------------------------------------------------------
(* WillhabenCrawler.crawl_once, lines 1073-1092 *)

\* DetectLoop without the seen_ids.add of line 1077
RECURSIVE DetectLoopNoAdd(_, _, _, _)
DetectLoopNoAdd(batch, i, seen, new) ==
    IF i > Len(batch) THEN [seen_ids |-> seen, new_listings |-> new]
    ELSE IF batch[i].id \notin seen
         THEN DetectLoopNoAdd(batch, i + 1, seen, Append(new, batch[i]))
         ELSE DetectLoopNoAdd(batch, i + 1, seen, new)

\* DetectLoop inserting each new listing at the front of new_listings
RECURSIVE DetectLoopPrepend(_, _, _, _)
DetectLoopPrepend(batch, i, seen, new) ==
    IF i > Len(batch) THEN [seen_ids |-> seen, new_listings |-> new]
    ELSE IF batch[i].id \notin seen
         THEN DetectLoopPrepend(batch, i + 1, seen \cup {batch[i].id},
                                <<batch[i]>> \o new)
         ELSE DetectLoopPrepend(batch, i + 1, seen, new)

\* DetectLoop without the membership test of line 1076
RECURSIVE DetectLoopNoTest(_, _, _, _)
DetectLoopNoTest(batch, i, seen, new) ==
    IF i > Len(batch) THEN [seen_ids |-> seen, new_listings |-> new]
    ELSE DetectLoopNoTest(batch, i + 1, seen \cup {batch[i].id},
                          Append(new, batch[i]))

\* The detection loop from its i-th listing on, with the seen set and the
\* new_listings accumulated so far.
RECURSIVE DetectLoop(_, _, _, _)
DetectLoop(batch, i, seen, new) ==
    IF i > Len(batch) THEN [seen_ids |-> seen, new_listings |-> new]
    ELSE IF batch[i].id \notin seen
         THEN DetectLoop(batch, i + 1, seen \cup {batch[i].id},
                         Append(new, batch[i]))
         ELSE DetectLoop(batch, i + 1, seen, new)

\* What the parsers can extract from a page body showing the ids of `site`
ParsedBatches == SeqsUpTo([id : site], served.size)

\* The bodies the site can serve: the adverts of the embedded payload and
\* the car containers of the markup, each with the listing it yields, at
\* most served.size entries in all
Pages ==
    {pg \in [kind : served.kinds, adverts : ParsedBatches,
             containers : ParsedBatches] :
        /\ Len(pg.adverts) + Len(pg.containers) <= served.size
        /\ pg.kind # "ok" => pg.adverts = <<>>
        /\ (pg.kind = "rejected" \/ ~served.markup) => pg.containers = <<>>}

\* The exception the try block of parse_next_data raises on a body
NextDataError(pg) ==
    CASE pg.kind = "bad_json" -> "JSONDecodeError"
      [] pg.kind = "no_key" -> "KeyError"
      [] pg.kind = "bad_type" -> "TypeError"
      [] OTHER -> "none"

\* NextDataHandlers with the except clause of line 655 only
NextDataHandlersJsonOnly == {"JSONDecodeError"}

\* The exceptions the except clauses of lines 652-658 catch
NextDataHandlers == {"KeyError", "JSONDecodeError", "TypeError"}

\* parse_next_data: whether it raises, and the listings it returns
parse_next_data(pg) ==
    IF pg.kind = "rejected"
    THEN [raised |-> TRUE, listings |-> <<>>]
    ELSE IF pg.kind = "no_script"
    THEN [raised |-> FALSE, listings |-> <<>>]
    ELSE IF NextDataError(pg) = "none"
    THEN [raised |-> FALSE, listings |-> pg.adverts]
    ELSE [raised |-> NextDataError(pg) \notin NextDataHandlers,
          listings |-> <<>>]

\* parse_car_listings: whether it raises, and the listings it returns
parse_car_listings(pg) ==
    IF pg.kind = "rejected"
    THEN [raised |-> TRUE, listings |-> <<>>]
    ELSE [raised |-> FALSE, listings |-> pg.containers]

\* ParseStage running both parsers and joining their results
ParseStageBoth(pg) ==
    LET s == parse_next_data(pg)
        f == parse_car_listings(pg)
    IN [raised |-> s.raised \/ f.raised,
        listings |-> s.listings \o f.listings,
        parsers |-> <<"parse_next_data", "parse_car_listings">>]

\* Lines 1064-1069 of crawl_once: the parsers invoked, the batch they give
\* and whether one of them raised
ParseStage(pg) ==
    LET s == parse_next_data(pg)
        f == parse_car_listings(pg)
    IN IF s.raised
       THEN [raised |-> TRUE, listings |-> <<>>,
             parsers |-> <<"parse_next_data">>]
       ELSE IF s.listings # <<>>
       THEN [raised |-> FALSE, listings |-> s.listings,
             parsers |-> <<"parse_next_data">>]
       ELSE [raised |-> f.raised, listings |-> f.listings,
             parsers |-> <<"parse_next_data", "parse_car_listings">>]

\* GET /cars: list(crawler.seen_ids)
get_cars == [total_cars |-> Cardinality(seen_ids), cars |-> seen_iter]

----------------------------------------------------------------------------
(* Listings as the parsers build them and the payload made of them.  A
   Python dict is a function from its keys, and dict.get is Get.  An advert
   of the embedded payload is kept with the keys extract_car_from_advert
   reads, bar advertStatus, adTypeId, productId and verticalId, which go to
   parts of the listing nothing reads; a key the site leaves out reads as
   the default of its get, so every advert carries every key.  A container
   of the markup is kept as what extract_car_info finds in it. *)

\* Python's None
None == "<None>"
EmptyDict == <<>>

\* d.get(k, default)
Get(d, k, default) == IF k \in DOMAIN d THEN d[k] ELSE default

\* datetime.now().isoformat()
Now == "now"

\* The elif chain of lines 867-977, in its order: the attribute name each
\* branch tests, the entry of car_model it assigns and what it assigns
\*   str     the first value as it is
\*   is1     attr_value == '1'
\*   istrue  attr_value.lower() == 'true'
\*   logo    the first value behind the cache URL
\*   values  the whole list of values
\*   int     int(attr_value) if it is all digits, else 0
AttributeBranches ==
    << [name |-> "CAR_MODEL/MAKE", section |-> "car_info", key |-> "make", conv |-> "str"],
       [name |-> "CAR_MODEL/MODEL", section |-> "car_info", key |-> "model", conv |-> "str"],
       [name |-> "CAR_MODEL/MODEL_SPECIFICATION", section |-> "car_info", key |-> "model_specification", conv |-> "str"],
       [name |-> "YEAR_MODEL", section |-> "car_info", key |-> "year", conv |-> "str"],
       [name |-> "MILEAGE", section |-> "car_info", key |-> "mileage", conv |-> "str"],
       [name |-> "ENGINE/FUEL", section |-> "car_info", key |-> "fuel_type", conv |-> "str"],
       [name |-> "ENGINE/FUEL_RESOLVED", section |-> "car_info", key |-> "fuel_type_resolved", conv |-> "str"],
       [name |-> "TRANSMISSION", section |-> "car_info", key |-> "transmission", conv |-> "str"],
       [name |-> "TRANSMISSION_RESOLVED", section |-> "car_info", key |-> "transmission_resolved", conv |-> "str"],
       [name |-> "CONDITION", section |-> "car_info", key |-> "condition", conv |-> "str"],
       [name |-> "CONDITION_RESOLVED", section |-> "car_info", key |-> "condition_resolved", conv |-> "str"],
       [name |-> "CAR_TYPE", section |-> "car_info", key |-> "car_type", conv |-> "str"],
       [name |-> "EXTERIORCOLOURMAIN", section |-> "car_info", key |-> "exterior_color", conv |-> "str"],
       [name |-> "ENGINE/EFFECT", section |-> "car_info", key |-> "engine_power", conv |-> "str"],
       [name |-> "NOOFSEATS", section |-> "car_info", key |-> "no_of_seats", conv |-> "str"],
       [name |-> "WARRANTY", section |-> "car_info", key |-> "warranty", conv |-> "str"],
       [name |-> "WARRANTY_RESOLVED", section |-> "car_info", key |-> "warranty_resolved", conv |-> "str"],
       [name |-> "PRICE", section |-> "pricing", key |-> "price", conv |-> "str"],
       [name |-> "PRICE_FOR_DISPLAY", section |-> "pricing", key |-> "price_display", conv |-> "str"],
       [name |-> "PRICE/AMOUNT", section |-> "pricing", key |-> "price_amount", conv |-> "str"],
       [name |-> "ISPRIVATE", section |-> "pricing", key |-> "is_private", conv |-> "is1"],
       [name |-> "MOTOR_PRICE_BONUS/TRADE_IN", section |-> "pricing", key |-> "motor_price_bonus_trade_in", conv |-> "istrue"],
       [name |-> "MOTOR_PRICE_BONUS/FINANCE", section |-> "pricing", key |-> "motor_price_bonus_finance", conv |-> "istrue"],
       [name |-> "ADDRESS", section |-> "location", key |-> "address", conv |-> "str"],
       [name |-> "POSTCODE", section |-> "location", key |-> "postcode", conv |-> "str"],
       [name |-> "LOCATION", section |-> "location", key |-> "city", conv |-> "str"],
       [name |-> "STATE", section |-> "location", key |-> "state", conv |-> "str"],
       [name |-> "COUNTRY", section |-> "location", key |-> "country", conv |-> "str"],
       [name |-> "COORDINATES", section |-> "location", key |-> "coordinates", conv |-> "str"],
       [name |-> "DISTRICT", section |-> "location", key |-> "district", conv |-> "str"],
       [name |-> "ORGID", section |-> "seller", key |-> "org_id", conv |-> "str"],
       [name |-> "ORGNAME", section |-> "seller", key |-> "org_name", conv |-> "str"],
       [name |-> "ORG_UUID", section |-> "seller", key |-> "org_uuid", conv |-> "str"],
       [name |-> "ISPRIVATE", section |-> "seller", key |-> "is_private", conv |-> "is1"],
       [name |-> "AUTDEALER", section |-> "seller", key |-> "is_autodealer", conv |-> "is1"],
       [name |-> "AD_SEARCHRESULT_LOGO", section |-> "seller", key |-> "logo_url", conv |-> "logo"],
       [name |-> "EQUIPMENT", section |-> "equipment", key |-> "equipment_ids", conv |-> "str"],
       [name |-> "EQUIPMENT_RESOLVED", section |-> "equipment", key |-> "equipment_resolved", conv |-> "values"],
       [name |-> "PUBLISHED", section |-> "timing", key |-> "published", conv |-> "str"],
       [name |-> "PUBLISHED_String", section |-> "timing", key |-> "published_string", conv |-> "str"],
       [name |-> "LAST_UPDATED", section |-> "timing", key |-> "last_updated", conv |-> "str"],
       [name |-> "IS_BUMPED", section |-> "timing", key |-> "is_bumped", conv |-> "is1"],
       [name |-> "DEFECTS_LIABILITY", section |-> "additional", key |-> "defects_liability", conv |-> "is1"],
       [name |-> "CONDITION_REPORT", section |-> "additional", key |-> "condition_report", conv |-> "is1"],
       [name |-> "BODY_DYN", section |-> "additional", key |-> "body_dyn", conv |-> "str"],
       [name |-> "SOURCE", section |-> "additional", key |-> "source", conv |-> "str"],
       [name |-> "AD_UUID", section |-> "additional", key |-> "ad_uuid", conv |-> "str"],
       [name |-> "fnmmocount", section |-> "additional", key |-> "fnmmocount", conv |-> "int"],
       [name |-> "SEO_URL", section |-> "top", key |-> "seo_url", conv |-> "str" ] >>

\* The value a branch assigns for the list of values of an attribute
Converted(conv, values) ==
    CASE conv = "str" -> values[1]
      [] conv = "is1" -> values[1] = "1"
      [] conv = "istrue" -> values[1] \in {"true", "True", "TRUE"}
      [] conv = "logo" -> <<"https://cache.willhaben.at/", values[1]>>
      [] conv = "values" -> values
      [] conv = "int" -> IF values[1] = "1" THEN 1 ELSE 0

\* The car_model of lines 754-857, before the attributes are read
NewCarModel(advert) ==
    [id |-> advert.id,
     title |-> advert.description,
     url |-> advert.selfLink,
     seo_url |-> "",
     crawled_at |-> Now,
     car_info |->
        [make |-> "", model |-> "", model_specification |-> "", year |-> "",
         mileage |-> "", fuel_type |-> "", fuel_type_resolved |-> "",
         transmission |-> "", transmission_resolved |-> "", condition |-> "",
         condition_resolved |-> "", car_type |-> "", exterior_color |-> "",
         engine_power |-> "", no_of_seats |-> "", warranty |-> "",
         warranty_resolved |-> ""],
     pricing |->
        [price |-> "", price_display |-> "", price_amount |-> "",
         is_private |-> FALSE, motor_price_bonus_trade_in |-> FALSE,
         motor_price_bonus_finance |-> FALSE],
     location |->
        [address |-> "", postcode |-> "", city |-> "", state |-> "",
         country |-> "", coordinates |-> "", district |-> ""],
     seller |->
        [org_id |-> "", org_name |-> "", org_uuid |-> "",
         is_private |-> FALSE, is_autodealer |-> FALSE, logo_url |-> ""],
     images |->
        [main_image |-> "", thumbnail |-> "", all_images |-> <<>>,
         image_count |-> 0],
     equipment |-> [equipment_ids |-> "", equipment_resolved |-> <<>>],
     timing |->
        [published |-> "", published_string |-> "", last_updated |-> "",
         is_bumped |-> FALSE],
     additional |->
        [defects_liability |-> FALSE, condition_report |-> FALSE,
         body_dyn |-> "", source |-> "", ad_uuid |-> "", fnmmocount |-> 0]]

\* One pass of the loop of line 862: the first branch of the chain that
\* tests the name of the attribute makes its assignment
ReadAttribute(car_model, attr) ==
    LET hits == {i \in DOMAIN AttributeBranches :
                    AttributeBranches[i].name = attr.name}
    IN IF attr.values = <<>> \/ hits = {} THEN car_model
       ELSE LET b == AttributeBranches[CHOOSE i \in hits :
                                          \A j \in hits : i <= j]
                v == Converted(b.conv, attr.values)
            IN IF b.section = "top"
               THEN [car_model EXCEPT ![b.key] = v]
               ELSE [car_model EXCEPT ![b.section][b.key] = v]

RECURSIVE ReadAttributes(_, _, _)
ReadAttributes(car_model, attributes, i) ==
    IF i > Len(attributes) THEN car_model
    ELSE ReadAttributes(ReadAttribute(car_model, attributes[i]),
                        attributes, i + 1)

\* Lines 980-986
ReadImages(car_model, images) ==
    IF images = <<>> THEN car_model
    ELSE [car_model EXCEPT
            !.images = [main_image |-> images[1].mainImageUrl,
                        thumbnail |-> images[1].thumbnailImageUrl,
                        all_images |-> [i \in DOMAIN images |->
                                           images[i].mainImageUrl],
                        image_count |-> Len(images)]]

extract_car_from_advert(advert) ==
    ReadImages(ReadAttributes(NewCarModel(advert), advert.attribute, 1),
               advert.advertImage)

\* urljoin(Config.BASE_URL, href)
urljoin(href) == IF href = "/d/1" THEN "https://www.willhaben.at/d/1"
                 ELSE href

\* The text of an element extract_car_info looks for, "N/A" without it
TextOrNA(text) == IF text = None THEN "N/A" ELSE text

\* Lines 998-1012: data-adid of the container, else its id, else the
\* data-adid of an element inside it
ContainerId(container) ==
    IF container.data_adid \notin {None, ""} THEN container.data_adid
    ELSE IF container.id \notin {None, ""} THEN container.id
    ELSE container.inner_adid

\* extract_car_info; for a container without an id it returns None, here a
\* listing with no id, which Kept drops like None
extract_car_info(container) ==
    [id |-> ContainerId(container),
     title |-> TextOrNA(container.title),
     price |-> TextOrNA(container.price),
     year |-> TextOrNA(container.year),
     km |-> TextOrNA(container.km),
     link |-> IF container.href = None THEN None
              ELSE urljoin(container.href),
     image_url |-> container.src,
     crawled_at |-> Now,
     source |-> "willhaben.at"]

\* `if car_model and car_model.get('id')` of line 643, and
\* `if listing and listing.get('id')` of line 609
Kept(listing) == Get(listing, "id", None) \notin {None, ""}

\* The try block of lines 1144-1170
convert_car_model_for_websocket(car_model) ==
    LET car_info == Get(car_model, "car_info", EmptyDict)
        pricing == Get(car_model, "pricing", EmptyDict)
        location == Get(car_model, "location", EmptyDict)
        seller == Get(car_model, "seller", EmptyDict)
        images == Get(car_model, "images", EmptyDict)
        timing == Get(car_model, "timing", EmptyDict)
    IN [id |-> Get(car_model, "id", ""),
        title |-> Get(car_model, "title", ""),
        price |-> Get(pricing, "price_display", Get(pricing, "price", "")),
        year |-> Get(car_info, "year", ""),
        mileage |-> Get(car_info, "mileage", ""),
        fuel |-> Get(car_info, "fuel_type_resolved",
                     Get(car_info, "fuel_type", "")),
        brand |-> Get(car_info, "make", ""),
        model |-> Get(car_info, "model", ""),
        location |-> Get(location, "city", Get(location, "address", "")),
        seller |-> Get(seller, "org_name", ""),
        url |-> Get(car_model, "url", ""),
        image_url |-> Get(images, "main_image", Get(images, "thumbnail", "")),
        crawled_at |-> Get(car_model, "crawled_at", ""),
        source |-> "willhaben.at",
        transmission |-> Get(car_info, "transmission_resolved",
                             Get(car_info, "transmission", "")),
        last_updated |-> Get(timing, "last_updated", "")]

----------------------------------------------------------------------------
(* WebSocketManager and the messages sent through it.  A JSON message is
   kept as a subscriber sees it: its type, the keys of the object, the
   listings under "data" and whether "data" is an array. *)

\* NewListingMessage under the type new_listings_update
NewListingsUpdateMessage(listing) ==
    [type |-> "new_listings_update", keys |-> {"type", "data", "timestamp"},
     data |-> <<convert_car_model_for_websocket(listing)>>, array |-> FALSE]

\* The message crawl_loop broadcasts for one new listing
NewListingMessage(listing) ==
    [type |-> "new_listing", keys |-> {"type", "data", "timestamp"},
     data |-> <<convert_car_model_for_websocket(listing)>>, array |-> FALSE]

\* The message websocket_endpoint sends first
WelcomeMessage ==
    [type |-> "welcome", keys |-> {"type", "message", "timestamp"},
     data |-> <<>>, array |-> FALSE]

\* disconnect: list.remove takes out the first occurrence, if any
disconnect(conns, c) ==
    IF \E i \in DOMAIN conns : conns[i] = c
    THEN LET i == CHOOSE k \in DOMAIN conns :
                      /\ conns[k] = c
                      /\ \A j \in 1..(k - 1) : conns[j] # c
         IN SubSeq(conns, 1, i - 1) \o SubSeq(conns, i + 1, Len(conns))
    ELSE conns

\* The second loop of broadcast: disconnect every connection of disc
RECURSIVE DisconnectAll(_, _)
DisconnectAll(conns, disc) ==
    IF disc = <<>> THEN conns
    ELSE DisconnectAll(disconnect(conns, Head(disc)), Tail(disc))

\* send_text(m) is called on socket c: either the message is handed to the
\* transport, or the call raises once it is resumed
SendText(c, m, box) ==
    {[inbox |-> [box EXCEPT ![c] = Append(@, m)], raised |-> FALSE],
     [inbox |-> box, raised |-> TRUE]}

----------------------------------------------------------------------------
(* WillhabenCrawler.crawl_loop: one action per await of the task *)

NoCall == [op |-> "none", arg |-> NoProxy, ret |-> NoProxy]

\* No broadcast in progress
NoBroadcast ==
    /\ bidx' = 0
    /\ connection' = NoConn
    /\ disconnected' = <<>>
    /\ send_raised' = FALSE
    /\ audience' = {}

\* Lines 1125-1131: the task suspends in asyncio.sleep
SleepCall(conns, box) ==
    /\ pc' = "sleep"
    /\ \E delay \in Delays : sleeping' = CRAWL_INTERVAL + delay
    /\ bcast' = <<>>
    /\ active_connections' = conns
    /\ inbox' = box
    /\ NoBroadcast

\* The first loop of broadcast takes the i-th connection of the list and
\* suspends in its send_text
SendNext(todo, conns, i, disc) ==
    /\ pc' = "send"
    /\ sleeping' = NoSleep
    /\ bcast' = todo
    /\ active_connections' = conns
    /\ bidx' = i
    /\ connection' = conns[i]
    /\ disconnected' = disc
    /\ audience' = IF i = 1 THEN Range(conns) ELSE audience
    /\ \E o \in SendText(conns[i], NewListingMessage(Head(todo)), inbox) :
          /\ inbox' = o.inbox
          /\ send_raised' = o.raised

\* BroadcastCall leaving the broadcasts behind, to be sent on their own
BroadcastCallDetached(todo, conns) ==
    /\ pc' = "sleep"
    /\ passed' = passed
    /\ \E delay \in Delays : sleeping' = CRAWL_INTERVAL + delay
    /\ bcast' = todo
    /\ active_connections' = conns
    /\ inbox' = inbox
    /\ NoBroadcast

\* Lines 1115-1123 from the listing Head(todo) on: broadcast returns at
\* once while there is no connection, else it suspends in its first send
BroadcastCall(todo, conns) ==
    IF todo = <<>> \/ conns = <<>>
    THEN /\ passed' = passed \cup {todo[i].id : i \in DOMAIN todo}
         /\ SleepCall(conns, inbox)
    ELSE /\ passed' = passed \cup {Head(todo).id}
         /\ SendNext(todo, conns, 1, <<>>)

\* crawl_once returned nl
AfterCrawlOnce(nl) == BroadcastCall(nl, active_connections)

\* An exception reached the except clause of line 1133
IterationRaised ==
    /\ pc' = "sleep_err"
    /\ sleeping' = CRAWL_INTERVAL
    /\ UNCHANGED castVars

\* crawl_once is called and runs fetch_page up to its session.get
CrawlOnceCall(pl, fl, lft, fn) ==
    /\ stats.total_requests < MaxRequests
    /\ \E c \in ChooseProxy(pl, fl) :
          /\ proxy' = c.proxy
          /\ failed_proxies' = c.failed
          /\ requests' = <<c.proxy>>
    /\ stats' = Bump(stats, "total_requests")
    /\ response' = NoResponse
    /\ html' = "pending"
    /\ page' = NoPage
    /\ parsers' = <<>>
    /\ listings' = <<>>
    /\ new_listings' = <<>>
    /\ proxy_list' = pl
    /\ last_fetch_time' = lft
    /\ ffp_now' = fn
    /\ pc' = "get"
    /\ sleeping' = NoSleep
    /\ UNCHANGED <<seen_ids, seen_iter, castVars>>

\* The periodic fetch_free_proxies of line 1109, then crawl_once
Iteration(pl, fl, lft, fn) ==
    IF ContactsSources(lft)
    THEN /\ pc' = "ffp"
         /\ ffp_now' = [fn EXCEPT !["loop"] = clock]
         /\ proxy_list' = pl
         /\ failed_proxies' = fl
         /\ last_fetch_time' = lft
         /\ sleeping' = NoSleep
         /\ UNCHANGED <<stats, fetchVars, storeVars, castVars>>
    ELSE CrawlOnceCall(pl, fl, lft, fn)

\* while self.is_running
TopOfLoop(running, pl, fl, lft, fn) ==
    IF ~running
    THEN /\ pc' = "done"
         /\ ffp_now' = fn
         /\ proxy_list' = pl
         /\ failed_proxies' = fl
         /\ last_fetch_time' = lft
         /\ sleeping' = NoSleep
         /\ UNCHANGED <<stats, fetchVars, storeVars, castVars>>
    ELSE Iteration(pl, fl, lft, fn)

\* FetchFailed letting the failure leave crawl_once as an exception
FetchFailedPropagates(r, marks) ==
    /\ response' = r
    /\ stats' = Bump(stats, "failed_requests")
    /\ failed_proxies' = IF marks THEN mark_proxy_failed(proxy, failed_proxies)
                         ELSE failed_proxies
    /\ html' = "none"
    /\ IterationRaised
    /\ UNCHANGED <<proxy_list, last_fetch_time, ffp_now, proxy, requests,
                   storeVars>>

\* fetch_page returns None: crawl_once returns [] and the loop sleeps
FetchFailed(r, marks) ==
    /\ response' = r
    /\ stats' = Bump(stats, "failed_requests")
    /\ failed_proxies' = IF marks THEN mark_proxy_failed(proxy, failed_proxies)
                         ELSE failed_proxies
    /\ html' = "none"
    /\ AfterCrawlOnce(<<>>)
    /\ UNCHANGED <<proxy_list, last_fetch_time, ffp_now, proxy, requests,
                   storeVars>>

\* The task runs for the first time
LoopStart ==
    /\ pc = "start"
    /\ is_running' = TRUE
    /\ IF ContactsSources(last_fetch_time)
       THEN /\ pc' = "ffp_init"
            /\ ffp_now' = [ffp_now EXCEPT !["loop"] = clock]
            /\ sleeping' = NoSleep
            /\ UNCHANGED <<proxyVars, stats, fetchVars, storeVars, castVars>>
       ELSE TopOfLoop(TRUE, proxy_list, failed_proxies, last_fetch_time,
                      ffp_now)
    /\ UNCHANGED <<cfg, site, served, clock, shutdown, ws, wire, call>>

\* The fetch_free_proxies of line 1101 returns
LoopFfpInitDone ==
    /\ pc = "ffp_init"
    /\ \E free_proxies \in WorkingProxies :
          TopOfLoop(is_running,
                    ExtendProxyList(proxy_list, free_proxies),
                    failed_proxies,
                    StampFetchTime(last_fetch_time, ffp_now["loop"],
                                   free_proxies),
                    [ffp_now EXCEPT !["loop"] = NoTime])
    /\ UNCHANGED loopFrame

\* The fetch_free_proxies of line 1109 returns
LoopFfpDone ==
    /\ pc = "ffp"
    /\ \E free_proxies \in WorkingProxies :
          CrawlOnceCall(ExtendProxyList(proxy_list, free_proxies),
                        failed_proxies,
                        StampFetchTime(last_fetch_time, ffp_now["loop"],
                                       free_proxies),
                        [ffp_now EXCEPT !["loop"] = NoTime])
    /\ UNCHANGED loopFrame

\* session.get yields a response or raises
LoopGetResponse ==
    /\ pc = "get"
    /\ \E r \in Responses :
          IF r = 200
          THEN /\ stats' = Bump(stats, "successful_requests")
               /\ response' = r
               /\ pc' = "text"
               /\ UNCHANGED <<proxyVars, ffp_now, proxy, requests, html,
                              storeVars, castVars, sleeping>>
          ELSE FetchFailed(r, IF r = Exception THEN MarksOnException(proxy)
                              ELSE MarksOnStatus(proxy, r))
    /\ UNCHANGED loopFrame

\* crawl_once from line 1063 on, then crawl_loop up to its next await:
\* the body pg is parsed and the new listings are detected, unless a
\* parser raised
ParseAndDetect(pg) ==
    LET parsed == ParseStage(pg)
        d == DetectLoop(parsed.listings, 1, seen_ids, <<>>)
    IN /\ html' = "body"
       /\ page' = pg
       /\ parsers' = parsed.parsers
       /\ IF parsed.raised
          THEN /\ IterationRaised
               /\ UNCHANGED <<seen_ids, seen_iter, listings, new_listings,
                              stats>>
          ELSE /\ listings' = parsed.listings
               /\ seen_ids' = d.seen_ids
               /\ seen_iter' \in (IF d.seen_ids = seen_ids THEN {seen_iter}
                                  ELSE Perms(d.seen_ids))
               /\ new_listings' = d.new_listings
               /\ stats' = [stats EXCEPT !.new_items_found =
                                            @ + Len(d.new_listings)]
               /\ AfterCrawlOnce(d.new_listings)

\* response.text() of a 200 response yields the body or raises; with a
\* body crawl_once parses it and detects the new listings
LoopTextDone ==
    /\ pc = "text"
    /\ \/ FetchFailed(Exception, MarksOnException(proxy))
       \/ /\ html' = "empty"
          /\ AfterCrawlOnce(<<>>)
          /\ UNCHANGED <<proxyVars, ffp_now, stats, proxy, requests,
                         response, storeVars>>
       \/ /\ \E pg \in Pages : ParseAndDetect(pg)
          /\ UNCHANGED <<proxyVars, ffp_now, proxy, requests, response>>
    /\ UNCHANGED loopFrame

\* LoopSendDone giving up the listings left once stop() has been called
LoopSendDoneUnlessStopped ==
    /\ pc = "send"
    /\ LET disc == IF send_raised THEN Append(disconnected, connection)
                   ELSE disconnected
       IN IF ~is_running
          THEN /\ passed' = passed
               /\ SleepCall(DisconnectAll(active_connections, disc), inbox)
          ELSE IF bidx + 1 <= Len(active_connections)
          THEN /\ passed' = passed
               /\ SendNext(bcast, active_connections, bidx + 1, disc)
          ELSE BroadcastCall(Tail(bcast),
                             DisconnectAll(active_connections, disc))
    /\ UNCHANGED <<proxyVars, ffp_now, stats, fetchVars, storeVars>>
    /\ UNCHANGED loopFrame

\* A send_text of broadcast returns or raises: the first loop goes on with
\* the item its iterator yields next; past the end of the list the failed
\* connections are disconnected and the next listing is broadcast
LoopSendDone ==
    /\ pc = "send"
    /\ LET disc == IF send_raised THEN Append(disconnected, connection)
                   ELSE disconnected
       IN IF bidx + 1 <= Len(active_connections)
          THEN /\ passed' = passed
               /\ SendNext(bcast, active_connections, bidx + 1, disc)
          ELSE BroadcastCall(Tail(bcast),
                             DisconnectAll(active_connections, disc))
    /\ UNCHANGED <<proxyVars, ffp_now, stats, fetchVars, storeVars>>
    /\ UNCHANGED loopFrame

\* asyncio.sleep of line 1131 or of line 1135 returns
LoopSleepDone ==
    /\ pc \in {"sleep", "sleep_err"}
    /\ TopOfLoop(is_running, proxy_list, failed_proxies, last_fetch_time,
                 ffp_now)
    /\ UNCHANGED loopFrame

\* Time passes
Tick ==
    /\ clock < MaxClock
    /\ clock' = clock + TickSeconds
    /\ UNCHANGED <<cfg, site, proxyVars, ffp_now, crawlVars, call>>

----------------------------------------------------------------------------
(* The crawl loop with the proxy features switched off *)

DirectConfig ==
    [USE_PROXY_ROTATION |-> FALSE, AUTO_FETCH_FREE_PROXY |-> FALSE,
     PROXY_LIST |-> {}]

\* A site whose bodies all carry a well-formed payload of up to MaxBatch
\* adverts and no car container
PayloadOnly == [kinds |-> {"ok"}, markup |-> FALSE, size |-> MaxBatch]

\* The same with up to FewIds adverts
SmallPayloadOnly == [kinds |-> {"ok"}, markup |-> FALSE, size |-> FewIds]

InitCommon ==
    /\ clock = 0
    /\ proxy_list = cfg.PROXY_LIST
    /\ failed_proxies = {}
    /\ last_fetch_time = NoTime
    /\ ffp_now = [c \in Callers |-> NoTime]
    /\ seen_ids = {}
    /\ seen_iter = <<>>
    /\ stats = [total_requests |-> 0, successful_requests |-> 0,
                failed_requests |-> 0, new_items_found |-> 0]
    /\ is_running = FALSE
    /\ shutdown = FALSE
    /\ proxy = NoProxy
    /\ requests = <<>>
    /\ response = NoResponse
    /\ html = "none"
    /\ page = NoPage
    /\ parsers = <<>>
    /\ listings = <<>>
    /\ new_listings = <<>>
    /\ active_connections = <<>>
    /\ bcast = <<>>
    /\ sleeping = NoSleep
    /\ bidx = 0
    /\ connection = NoConn
    /\ disconnected = <<>>
    /\ send_raised = FALSE
    /\ audience = {}
    /\ passed = {}
    /\ ws = [c \in Conns |-> "idle"]
    /\ inbox = [c \in Conns |-> <<>>]
    /\ call = NoCall

Init ==
    /\ cfg = DirectConfig
    /\ site = Ids
    /\ served = PayloadOnly
    /\ pc = "start"
    /\ InitCommon
    /\ wire = NoWire

Next ==
    \/ LoopStart
    \/ LoopGetResponse
    \/ LoopTextDone
    \/ LoopSleepDone

Spec == Init /\ [][Next]_vars

----------------------------------------------------------------------------
(* Change detection: claims checked under Spec *)

\* The step in which crawl_once parses a fetched body and returns
Detected == pc = "text" /\ html' = "body"

IdsOf(s) == {s[i].id : i \in DOMAIN s}

DistinctIds(s) == \A i, j \in DOMAIN s : i # j => s[i].id # s[j].id

\* Positions of the batch holding the first occurrence of an id not in seen
FirstUnseen(batch, seen) ==
    {i \in DOMAIN batch :
        /\ batch[i].id \notin seen
        /\ \A j \in 1..(i - 1) : batch[j].id # batch[i].id}

\* s consists of the entries of batch at the positions I, in batch order
IsRestriction(s, batch, I) ==
    /\ Len(s) = Cardinality(I)
    /\ \A i \in I : s[Cardinality({j \in I : j <= i})] = batch[i]

\* C1: over any sequence of poll cycles seen_ids only grows, and a listing
\* id is returned as new at most once: crawl_once never returns an id that
\* is already in seen_ids, never returns an id twice in one result, and
\* every id it returns is in seen_ids from then on.
C1_SeenOnlyGrowsReturnedOnce ==
    [][/\ seen_ids \subseteq seen_ids'
       /\ Detected =>
            /\ IdsOf(new_listings') \cap seen_ids = {}
            /\ DistinctIds(new_listings')
            /\ IdsOf(new_listings') \subseteq seen_ids']_vars

\* A cycle whose batch repeats a new id and re-observes a seen one
C1_Witness ==
    /\ pc = "sleep"
    /\ html = "body"
    /\ Len(listings) = 3
    /\ listings[1].id = listings[2].id
    /\ Len(new_listings) = 1
    /\ new_listings[1] = listings[1]
    /\ Cardinality(seen_ids) = 2

\* C2: crawl_once returns exactly the not-yet-seen listings of the parsed
\* batch (first occurrence of each id), in their arrival order.
C2_ReturnsUnseenInArrivalOrder ==
    [][Detected =>
         IsRestriction(new_listings', listings',
                       FirstUnseen(listings', seen_ids))]_vars

\* The second cycle of the scenario, with ids 1,2 for A,B and 3 for D: the
\* first cycle saw 1,2 and the batch <<2,3>> gives <<3>>
C2_Witness ==
    /\ pc = "sleep"
    /\ html = "body"
    /\ listings = <<[id |-> 2], [id |-> 3]>>
    /\ new_listings = <<[id |-> 3]>>
    /\ seen_ids = {1, 2, 3}
    /\ stats.successful_requests = 2

\* C3: what the pull accessor returns is a window of at most
\* WindowCapacity entries, no two of them with the same id.
C3_WindowBoundedNoDuplicates ==
    /\ Len(get_cars.cars) <= WindowCapacity
    /\ \A i, j \in DOMAIN get_cars.cars :
          i # j => get_cars.cars[i] # get_cars.cars[j]

\* C4 as claimed: a cycle observing one listing whose id is already stored
\* moves that entry to the front of the stored sequence, whose length does
\* not change.
C4_ReobservedMovesToFront ==
    [][(Detected /\ Len(listings') = 1 /\ listings'[1].id \in seen_ids) =>
         /\ get_cars'.cars[1] = listings'[1].id
         /\ Len(get_cars'.cars) = Len(get_cars.cars)]_vars

\* C4 as amended: a cycle observing only listings whose ids are already
\* stored returns nothing new and leaves the stored ids, their order and
\* their number as they were.
C4_ReobservedLeavesStoreUnchanged ==
    [][(Detected /\ listings' # <<>> /\ IdsOf(listings') \subseteq seen_ids) =>
         /\ new_listings' = <<>>
         /\ get_cars' = get_cars]_vars

\* A cycle that only re-observed stored ids
C4_Witness ==
    /\ pc = "sleep"
    /\ html = "body"
    /\ listings # <<>>
    /\ IdsOf(listings) \subseteq seen_ids
    /\ new_listings = <<>>
    /\ stats.new_items_found > 0

----------------------------------------------------------------------------
(* HTTP handlers of the proxy endpoints *)

\* POST /proxy/fetch up to the await inside fetch_free_proxies; a call that
\* takes one of the early returns changes nothing
ApiProxyFetchBegin ==
    /\ ffp_now["api"] = NoTime
    /\ ContactsSources(last_fetch_time)
    /\ ffp_now' = [ffp_now EXCEPT !["api"] = clock]
    /\ UNCHANGED <<cfg, site, clock, proxyVars, crawlVars, call>>

\* POST /proxy/fetch from the return of fetch_and_test_proxies on
ApiProxyFetchDone ==
    /\ ffp_now["api"] # NoTime
    /\ \E free_proxies \in WorkingProxies :
          /\ proxy_list' = ExtendProxyList(proxy_list, free_proxies)
          /\ last_fetch_time' = StampFetchTime(last_fetch_time,
                                               ffp_now["api"], free_proxies)
    /\ ffp_now' = [ffp_now EXCEPT !["api"] = NoTime]
    /\ UNCHANGED <<cfg, site, clock, failed_proxies, crawlVars, call>>

\* POST /proxy/reset
ApiProxyReset ==
    /\ failed_proxies # {}
    /\ failed_proxies' = {}
    /\ UNCHANGED <<cfg, site, clock, proxy_list, last_fetch_time, ffp_now,
                   crawlVars, call>>

----------------------------------------------------------------------------
(* websocket_endpoint, one handler task per client socket, and the
   shutdown hook *)

\* what a websocket_endpoint task never writes
wsFrame == <<cfg, site, served, clock, proxyVars, ffp_now, storeVars, stats,
             is_running, shutdown, pc, fetchVars, bcast, sleeping, bidx,
             connection, disconnected, send_raised, audience, passed, wire,
             call>>

\* The handler of socket c from the return of websocket.accept() to the
\* await of its welcome send; when accept raises, the handler ends there
WsConnect(c) ==
    /\ ws[c] = "idle"
    /\ \/ /\ ws' = [ws EXCEPT ![c] = "closed"]
          /\ UNCHANGED <<active_connections, inbox>>
       \/ /\ active_connections' = Append(active_connections, c)
          /\ \E o \in SendText(c, WelcomeMessage, inbox) :
                /\ inbox' = o.inbox
                /\ ws' = [ws EXCEPT ![c] = IF o.raised THEN "welcome_raised"
                                            ELSE "welcome"]
    /\ UNCHANGED wsFrame

\* send_personal_message is resumed: a send that raised disconnects the
\* socket; the handler then waits in receive_text
WsWelcomeDone(c) ==
    /\ ws[c] \in {"welcome", "welcome_raised"}
    /\ active_connections' = IF ws[c] = "welcome_raised"
                             THEN disconnect(active_connections, c)
                             ELSE active_connections
    /\ ws' = [ws EXCEPT ![c] = "receive"]
    /\ UNCHANGED inbox
    /\ UNCHANGED wsFrame

\* receive_text raises (the client went away): the finally clause
\* disconnects the socket and the handler ends
WsClose(c) ==
    /\ ws[c] = "receive"
    /\ active_connections' = disconnect(active_connections, c)
    /\ ws' = [ws EXCEPT ![c] = "closed"]
    /\ UNCHANGED inbox
    /\ UNCHANGED wsFrame

\* shutdown_event: crawler.stop()
Stop ==
    /\ ~shutdown
    /\ shutdown' = TRUE
    /\ is_running' = FALSE
    /\ UNCHANGED <<cfg, site, served, clock, proxyVars, ffp_now, storeVars,
                   stats, pc, fetchVars, castVars, sleeping, ws, wire, call>>

----------------------------------------------------------------------------
(* The crawl loop and its subscribers: every socket of Conns, watching a
   small site *)

InitHub ==
    /\ cfg = DirectConfig
    /\ site = 1..FewIds
    /\ served = PayloadOnly
    /\ pc = "start"
    /\ InitCommon
    /\ wire = NoWire

NextHub ==
    \/ LoopStart
    \/ LoopGetResponse
    \/ LoopTextDone
    \/ LoopSendDone
    \/ LoopSleepDone
    \/ \E c \in Conns : WsConnect(c)
    \/ \E c \in Conns : WsWelcomeDone(c)
    \/ \E c \in Conns : WsClose(c)

SpecHub == InitHub /\ [][NextHub]_vars

----------------------------------------------------------------------------
(* The crawl loop and a small audience, watching a small site with short
   pages *)

InitFeed ==
    /\ cfg = DirectConfig
    /\ site = 1..FewIds
    /\ served = SmallPayloadOnly
    /\ pc = "start"
    /\ InitCommon
    /\ wire = NoWire

NextFeed ==
    \/ LoopStart
    \/ LoopGetResponse
    \/ LoopTextDone
    \/ LoopSendDone
    \/ LoopSleepDone
    \/ \E c \in 1..MaxWatch : WsConnect(c)
    \/ \E c \in 1..MaxWatch : WsWelcomeDone(c)
    \/ \E c \in 1..MaxWatch : WsClose(c)

SpecFeed == InitFeed /\ [][NextFeed]_vars

----------------------------------------------------------------------------
(* The crawl loop with proxies, against a page that shows no listing *)

Configs ==
    [USE_PROXY_ROTATION : BOOLEAN, AUTO_FETCH_FREE_PROXY : BOOLEAN,
     PROXY_LIST : SUBSET Proxies]

InitProxy ==
    /\ cfg \in Configs
    /\ site = {}
    /\ served = PayloadOnly
    /\ pc = "start"
    /\ InitCommon
    /\ wire = NoWire

NextProxy ==
    \/ LoopStart
    \/ LoopFfpInitDone
    \/ LoopFfpDone
    \/ LoopGetResponse
    \/ LoopTextDone
    \/ LoopSleepDone
    \/ Tick
    \/ ApiProxyFetchBegin
    \/ ApiProxyFetchDone
    \/ ApiProxyReset

SpecProxy == InitProxy /\ [][NextProxy]_vars

----------------------------------------------------------------------------
(* The crawl loop against every kind of body, with the shutdown hook *)

\* A site serving every kind of body, of up to MaxBatch entries
AnyBody == [kinds |-> PageKinds, markup |-> TRUE, size |-> MaxBatch]

InitCycle ==
    /\ cfg \in {c \in Configs : ~c.USE_PROXY_ROTATION /\ c.PROXY_LIST = {}}
    /\ site = 1..FewIds
    /\ served = AnyBody
    /\ pc = "start"
    /\ InitCommon
    /\ wire = NoWire

NextCycle ==
    \/ LoopStart
    \/ LoopFfpInitDone
    \/ LoopFfpDone
    \/ LoopGetResponse
    \/ LoopTextDone
    \/ LoopSleepDone
    \/ Stop

SpecCycle == InitCycle /\ [][NextCycle]_vars

----------------------------------------------------------------------------
(* ProxyManager as an object: its methods called with any argument *)

PoolMarkProxyFailed(p) ==
    /\ failed_proxies' = mark_proxy_failed(p, failed_proxies)
    /\ call' = [op |-> "mark_proxy_failed", arg |-> p, ret |-> NoProxy]
    /\ UNCHANGED <<cfg, site, clock, proxy_list, last_fetch_time, ffp_now,
                   crawlVars>>

PoolGetRandomProxy ==
    /\ \E c \in get_random_proxy(proxy_list, failed_proxies) :
          /\ failed_proxies' = c.failed
          /\ call' = [op |-> "get_random_proxy", arg |-> NoProxy,
                      ret |-> c.proxy]
    /\ UNCHANGED <<cfg, site, clock, proxy_list, last_fetch_time, ffp_now,
                   crawlVars>>

InitPool ==
    /\ cfg \in Configs
    /\ site = {}
    /\ served = PayloadOnly
    /\ pc = "none"
    /\ InitCommon
    /\ wire = NoWire

NextPool ==
    \/ \E p \in Proxies \cup {NoProxy} : PoolMarkProxyFailed(p)
    \/ PoolGetRandomProxy
    \/ ApiProxyFetchBegin
    \/ ApiProxyFetchDone
    \/ ApiProxyReset
    \/ Tick

SpecPool == InitPool /\ [][NextPool]_vars

----------------------------------------------------------------------------
(* The parsers' extraction and the conversion to the payload, applied to
   one advert or one container *)

\* what the extraction and the conversion of a listing never write
wireFrame == <<cfg, site, served, clock, proxyVars, ffp_now, storeVars, stats,
               is_running, shutdown, pc, fetchVars, castVars, sleeping, ws,
               call>>

\* The attribute names the adverts of the model use
AttrNames == {"PRICE", "PRICE_FOR_DISPLAY", "ISPRIVATE", "ORGNAME",
              "LOCATION"}

\* Their lists of values
AttrValues == {<<>>, <<"0">>, <<"1">>}

\* The entries of advertImageList.advertImage
AdvertImages ==
    [mainImageUrl : {"", "main.jpg"}, thumbnailImageUrl : {"", "thumb.jpg"}]

Adverts ==
    [id : {"", "1"},
     description : {"", "VW Golf"},
     selfLink : {"", "/d/1"},
     attribute : SeqsUpTo([name : AttrNames, values : AttrValues], MaxAttrs),
     advertImage : SeqsUpTo(AdvertImages, MaxImages)]

Containers ==
    [data_adid : {None, "1"},
     id : {None, "2"},
     inner_adid : {None, "3"},
     title : {None, "VW Golf"},
     price : {None, "9900"},
     year : {None, "2015"},
     km : {None, "80000"},
     href : {None, "/d/1"},
     src : {None, "main.jpg"}]

\* parse_next_data, lines 641-647: extract_car_from_advert on one advert
ExtractAdvert ==
    /\ wire.stage = "input"
    /\ wire.from = "advert"
    /\ LET car_model == extract_car_from_advert(wire.input)
       IN wire' = [wire EXCEPT !.listing = car_model,
                               !.stage = IF Kept(car_model) THEN "listing"
                                         ELSE "dropped"]
    /\ UNCHANGED wireFrame

\* parse_car_listings, lines 606-610: extract_car_info on one container
ExtractContainer ==
    /\ wire.stage = "input"
    /\ wire.from = "container"
    /\ LET listing == extract_car_info(wire.input)
       IN wire' = [wire EXCEPT !.listing = listing,
                               !.stage = IF Kept(listing) THEN "listing"
                                         ELSE "dropped"]
    /\ UNCHANGED wireFrame

\* crawl_loop, line 1118: the listing is converted for the broadcast
ConvertListing ==
    /\ wire.stage = "listing"
    /\ wire' = [wire EXCEPT
                  !.payload = convert_car_model_for_websocket(wire.listing),
                  !.stage = "payload"]
    /\ UNCHANGED wireFrame

InitWire ==
    /\ cfg = DirectConfig
    /\ site = {}
    /\ served = AnyBody
    /\ pc = "none"
    /\ InitCommon
    /\ wire \in {[NoWire EXCEPT !.stage = "input", !.from = "advert",
                                !.input = a] : a \in Adverts}
           \cup {[NoWire EXCEPT !.stage = "input", !.from = "container",
                                !.input = c] : c \in Containers}

NextWire ==
    \/ ExtractAdvert
    \/ ExtractContainer
    \/ ConvertListing

SpecWire == InitWire /\ [][NextWire]_vars

----------------------------------------------------------------------------
(* The crawl loop from detection to broadcast, with a small audience that
   stays until a send to it fails, bodies the parser rejects and the
   shutdown hook *)

\* A site whose bodies carry a payload of up to SomeIds adverts or make
\* the HTML parser raise
PayloadOrRejected ==
    [kinds |-> {"ok", "rejected"}, markup |-> FALSE, size |-> SomeIds]

\* The backend has started and the sockets of a small audience have
\* connected, received their welcome and wait in receive_text
InitRelay ==
    /\ cfg = DirectConfig
    /\ site = 1..SomeIds
    /\ served = PayloadOrRejected
    /\ pc = "start"
    /\ clock = 0
    /\ proxy_list = cfg.PROXY_LIST
    /\ failed_proxies = {}
    /\ last_fetch_time = NoTime
    /\ ffp_now = [c \in Callers |-> NoTime]
    /\ seen_ids = {}
    /\ seen_iter = <<>>
    /\ stats = [total_requests |-> 0, successful_requests |-> 0,
                failed_requests |-> 0, new_items_found |-> 0]
    /\ is_running = FALSE
    /\ shutdown = FALSE
    /\ proxy = NoProxy
    /\ requests = <<>>
    /\ response = NoResponse
    /\ html = "none"
    /\ page = NoPage
    /\ parsers = <<>>
    /\ listings = <<>>
    /\ new_listings = <<>>
    /\ active_connections = [c \in 1..MaxWatch |-> c]
    /\ bcast = <<>>
    /\ sleeping = NoSleep
    /\ bidx = 0
    /\ connection = NoConn
    /\ disconnected = <<>>
    /\ send_raised = FALSE
    /\ audience = {}
    /\ passed = {}
    /\ ws = [c \in Conns |-> IF c <= MaxWatch THEN "receive" ELSE "idle"]
    /\ inbox = [c \in Conns |-> IF c <= MaxWatch THEN <<WelcomeMessage>>
                                ELSE <<>>]
    /\ call = NoCall
    /\ wire = NoWire

NextRelay ==
    \/ LoopStart
    \/ LoopGetResponse
    \/ LoopTextDone
    \/ LoopSendDone
    \/ LoopSleepDone
    \/ Stop

SpecRelay == InitRelay /\ [][NextRelay]_vars

----------------------------------------------------------------------------
(* Fetching: claims checked under SpecProxy *)

\* The step in which fetch_page is called and issues its request
FetchCalled == pc # "get" /\ pc' = "get"

\* The step in which fetch_page returns None
FetchReturnsNone == pc \in {"get", "text"} /\ html' = "none"

\* C5: a fetch_page call reports failure only after a first failed request
\* and one retry over a direct connection, two requests in all.
C5_FailureOnlyAfterDirectRetry ==
    (html = "none" /\ requests # <<>>) =>
        (Len(requests) = 2 /\ requests[2] = NoProxy)

\* C6 as claimed: whatever the failure, a fetch_page call that used a proxy
\* and returns None leaves that proxy out of the available proxies.
C6_AnyFailureRemovesProxy ==
    [][(FetchReturnsNone /\ proxy # NoProxy) =>
         proxy \notin Available(proxy_list', failed_proxies')]_vars

\* C6 as amended: a fetch_page call that used a proxy and returns None
\* after an exception or a 403, 407, 502 or 503 response leaves that proxy
\* marked failed and out of the available proxies; after any other status
\* it leaves the failure marks as they were.
C6_MarkedFailureRemovesProxy ==
    [][(FetchReturnsNone /\ proxy # NoProxy) =>
         IF response' \in MarkStatuses \cup {Exception}
         THEN /\ proxy \in failed_proxies'
              /\ proxy \notin Available(proxy_list', failed_proxies')
         ELSE failed_proxies' = failed_proxies]_vars

\* A call over a proxy has just failed with a 503 and marked it
C6_Witness ==
    /\ pc = "sleep"
    /\ html = "none"
    /\ response = 503
    /\ proxy # NoProxy
    /\ proxy \in proxy_list
    /\ proxy \in failed_proxies

\* C7: with proxy rotation enabled and no available proxy (empty list or
\* every proxy marked failed) fetch_page issues its request directly, and
\* neither counts a failure nor touches the failure marks.
C7_NoProxyGoesDirect ==
    [][(FetchCalled /\ cfg.USE_PROXY_ROTATION
          /\ Available(proxy_list', failed_proxies) = {}) =>
         /\ proxy' = NoProxy
         /\ requests' = <<NoProxy>>
         /\ html' = "pending"
         /\ failed_proxies' = failed_proxies
         /\ stats'.failed_requests = stats.failed_requests]_vars

\* A direct request in flight while every proxy of the list is marked failed
C7_Witness ==
    /\ pc = "get"
    /\ cfg.USE_PROXY_ROTATION
    /\ proxy_list # {}
    /\ proxy_list \subseteq failed_proxies
    /\ proxy = NoProxy
    /\ requests = <<NoProxy>>

\* C8: a pool that starts within MAX_FREE_PROXIES never holds more than
\* MAX_FREE_PROXIES proxies.
C8_PoolWithinCapacity ==
    Cardinality(cfg.PROXY_LIST) <= MAX_FREE_PROXIES =>
        Cardinality(proxy_list) <= MAX_FREE_PROXIES

----------------------------------------------------------------------------
(* The pool's methods: claims checked under SpecPool *)

\* C9: mark_proxy_failed is idempotent, and called with an address the
\* pool never held it leaves the pool's state as it was.
C9_MarkFailedIdempotentNoOpOnUnknown ==
    [][\A p \in Proxies \cup {NoProxy} :
          PoolMarkProxyFailed(p) =>
            /\ mark_proxy_failed(p, failed_proxies') = failed_proxies'
            /\ p \notin proxy_list =>
                 /\ UNCHANGED <<proxy_list, failed_proxies, last_fetch_time>>
                 /\ get_stats' = get_stats]_vars

\* C10 as claimed: get_random_proxy returns an available proxy or None and
\* leaves proxy_list and failed_proxies as they were.
C10_PickRandomLeavesPoolUnchanged ==
    [][PoolGetRandomProxy =>
         /\ call'.ret \in Available(proxy_list, failed_proxies) \cup {NoProxy}
         /\ UNCHANGED <<proxy_list, failed_proxies>>]_vars

\* C10 as amended: get_random_proxy never changes proxy_list; while a proxy
\* is available it returns an available one and leaves failed_proxies as it
\* was; on an empty list it returns None; when the list is not empty and
\* every proxy is marked failed it clears failed_proxies and returns a
\* proxy of the list.
C10_PickRandomResetsWhenAllFailed ==
    [][PoolGetRandomProxy =>
         /\ proxy_list' = proxy_list
         /\ Available(proxy_list, failed_proxies) # {} =>
              /\ call'.ret \in Available(proxy_list, failed_proxies)
              /\ failed_proxies' = failed_proxies
         /\ proxy_list = {} =>
              /\ call'.ret = NoProxy
              /\ failed_proxies' = failed_proxies
         /\ (proxy_list # {} /\ Available(proxy_list, failed_proxies) = {}) =>
              /\ call'.ret \in proxy_list
              /\ failed_proxies' = {}]_vars

\* get_random_proxy has returned an available proxy of a pool that also
\* holds a proxy marked failed
C10_Witness ==
    /\ call.op = "get_random_proxy"
    /\ call.ret \in Available(proxy_list, failed_proxies)
    /\ proxy_list \cap failed_proxies # {}

----------------------------------------------------------------------------
(* Broadcasting: claims checked under SpecHub *)

\* The step of the crawl loop in which the first loop of a broadcast ends
\* and the broadcast returns
BroadcastReturns ==
    /\ pc = "send"
    /\ bidx + 1 > Len(active_connections)
    /\ <<pc, bcast>>' # <<pc, bcast>>

\* The connections whose send_text raised in the broadcast in progress
Raised ==
    Range(disconnected) \cup (IF send_raised THEN {connection} ELSE {})

\* The payload of the broadcast in progress
Payload == NewListingMessage(Head(bcast))

\* C11: when a broadcast returns, every connection registered at that
\* moment whose send did not raise has received the payload, the
\* connections it unregisters are exactly those whose send raised, and the
\* crawl loop goes on (the broadcast did not raise).
C11_BroadcastReachesEveryConnection ==
    [][BroadcastReturns =>
         /\ \A c \in Range(active_connections) \ Raised :
               Payload \in Range(inbox[c])
         /\ Range(active_connections') = Range(active_connections) \ Raised
         /\ pc' \in {"send", "sleep"}]_vars

\* The types under which a new listing is announced
UpdateTypes == {"new_listing", "new_listings_update"}

\* C12: the first message a subscriber receives is the welcome, and before
\* any new-listing update it has received, as its second message, the
\* snapshot of the recent listings.
C12_WelcomeThenSnapshotBeforeUpdates ==
    \A c \in Conns : \A i \in DOMAIN inbox[c] :
        /\ inbox[c][1].type = "welcome"
        /\ inbox[c][i].type \in UpdateTypes =>
              /\ i > 2
              /\ inbox[c][2].type = "initial_listings"

----------------------------------------------------------------------------
(* Messages and the order of a cycle: claims checked under SpecFeed *)

Messages == UNION {Range(inbox[c]) : c \in Conns}

\* C13 as claimed: every JSON message sent to a subscriber has one of the
\* types new_listings_update, welcome, initial_listings and carries data as
\* a list of listings, a timestamp and a count.
C13_MessagesTypedWithListAndCount ==
    \A m \in Messages :
        /\ m.type \in {"new_listings_update", "welcome", "initial_listings"}
        /\ {"data", "timestamp", "count"} \subseteq m.keys
        /\ m.array

\* C13 as amended: every JSON message sent to a subscriber has the type
\* new_listing or welcome and carries a timestamp and no count; a
\* new_listing carries under data one listing (an object, not a list), a
\* welcome carries a message text and no data.
C13_MessagesNewListingOrWelcome ==
    \A m \in Messages :
        /\ m.type \in {"new_listing", "welcome"}
        /\ "timestamp" \in m.keys
        /\ "count" \notin m.keys
        /\ m.type = "new_listing" =>
              /\ m.keys = {"type", "data", "timestamp"}
              /\ ~m.array
              /\ Len(m.data) = 1
              /\ m.data[1].id \in seen_ids
        /\ m.type = "welcome" =>
              /\ m.keys = {"type", "message", "timestamp"}
              /\ m.data = <<>>

\* A subscriber has received its welcome and then a new listing
C13_Witness ==
    \E c \in Conns :
        /\ Len(inbox[c]) = 2
        /\ inbox[c][1].type = "welcome"
        /\ inbox[c][2].type = "new_listing"

\* C16: the steps of a poll cycle follow one another in the order fetch,
\* parse and detect, broadcast, sleep: listings wait to be broadcast only
\* while the loop is broadcasting, a broadcast begins only out of the step
\* that parsed and detected and with exactly the new listings of the
\* cycle, they are broadcast one after the other, and the fetch of the
\* next cycle begins only out of the sleep, with nothing left to
\* broadcast.
C16_CyclePhasesInOrder ==
    [][/\ bcast # <<>> => pc = "send"
       /\ (pc # "send" /\ pc' = "send") =>
             /\ pc = "text"
             /\ html' = "body"
             /\ bcast' = new_listings'
       /\ (pc = "send" /\ pc' = "send") =>
             bcast' \in {bcast, Tail(bcast)}
       /\ pc = "send" => pc' \in {"send", "sleep"}
       /\ (pc = "send" /\ pc' = "sleep") =>
             (Len(bcast) = 1 \/ active_connections' = <<>>)
       /\ (pc # "get" /\ pc' = "get") =>
             /\ pc \in {"start", "sleep", "sleep_err"}
             /\ bcast' = <<>>
       /\ pc = "get" => pc' \in {"get", "text", "sleep"}
       /\ pc = "text" => pc' \in {"text", "send", "sleep", "sleep_err"}]_vars

\* The fetch of a second cycle is under way after the first cycle sent a
\* new listing to a subscriber
C16_Witness ==
    /\ pc = "get"
    /\ stats.total_requests > 1
    /\ \E c \in Conns : \E i \in DOMAIN inbox[c] :
          inbox[c][i].type = "new_listing"

----------------------------------------------------------------------------
(* Errors, shutdown and parsing: claims checked under SpecCycle *)

\* C14: the sleep after an iteration that ended with an uncaught error is
\* not shorter than the sleep after a successful one, which is the base
\* interval plus a jitter of at least MIN_DELAY.
C14_ErrorSleepNotShorter ==
    pc = "sleep_err" => sleeping >= CRAWL_INTERVAL + MIN_DELAY

\* The step in which the loop, at the top of an iteration or before its
\* first one, starts a poll cycle
CycleStarts ==
    /\ pc \in {"start", "ffp_init", "sleep", "sleep_err"}
    /\ pc' \in {"ffp", "get"}

\* C15: once stop() has been called the loop starts no further poll cycle,
\* also when stop() is called before the loop task has run.
C15_NoCycleAfterStop ==
    [][shutdown => ~CycleStarts]_vars

\* The step in which crawl_once hands a fetched body to the parsers
Parsed == pc = "text" /\ html' = "body"

Structured(pg) == IF pg.kind = "ok" THEN pg.adverts ELSE <<>>

\* C20: in a cycle with a fetched body, parse_car_listings is invoked
\* exactly when parse_next_data returned no listing; when parse_next_data
\* returned listings they are the batch of the cycle, nothing of the
\* markup mixed in.
C20_FallbackOnlyOnEmptyStructured ==
    [][(Parsed /\ page'.kind # "rejected") =>
         /\ parsers'[1] = "parse_next_data"
         /\ ("parse_car_listings" \in Range(parsers'))
               <=> (Structured(page') = <<>>)
         /\ Structured(page') # <<>> => listings' = Structured(page')
         /\ Structured(page') = <<>> => listings' = page'.containers]_vars

\* A cycle whose body carried adverts and car containers: only the
\* structured parser ran
C20_Witness ==
    /\ pc = "sleep"
    /\ page.kind = "ok"
    /\ page.adverts # <<>>
    /\ page.containers # <<>>
    /\ parsers = <<"parse_next_data">>
    /\ listings = page.adverts

----------------------------------------------------------------------------
(* Proxy sourcing: claims checked under SpecProxy *)

\* C17: the poll loop never waits for a free-proxy acquisition: the loop
\* task is never suspended in fetch_free_proxies.
C17_LoopNeverWaitsForAcquisition ==
    /\ pc \notin {"ffp_init", "ffp"}
    /\ ffp_now["loop"] = NoTime

\* The step in which an acquisition made by the loop ends without proxies
LoopAcquisitionFailed ==
    /\ pc \in {"ffp_init", "ffp"}
    /\ pc' # pc
    /\ last_fetch_time' # ffp_now["loop"]

\* C18: a failed proxy acquisition is never followed at once by a new
\* attempt.
C18_NoAttemptRightAfterFailure ==
    [][LoopAcquisitionFailed => pc' \notin {"ffp_init", "ffp"}]_vars

----------------------------------------------------------------------------
(* A failed fetch: claim checked under SpecFeed *)

\* C21: a poll cycle whose fetch fails (fetch_page returns None) ends like
\* any other: crawl_once returns an empty list, seen_ids stays as it was,
\* no subscriber is sent anything, the loop goes to its normal sleep of the
\* base interval plus a jitter (not to its error handler), and out of that
\* sleep it starts the fetch of the next cycle.
C21_FailedFetchIsEmptyCycle ==
    [][/\ FetchReturnsNone =>
             /\ new_listings' = <<>>
             /\ seen_ids' = seen_ids
             /\ inbox' = inbox
             /\ bcast' = <<>>
             /\ pc' = "sleep"
             /\ sleeping' - CRAWL_INTERVAL \in Delays
       /\ (pc = "sleep" /\ html = "none" /\ pc' # pc) => pc' = "get"]_vars

\* After a cycle that sent a new listing to a subscriber, the fetch of the
\* next cycle raised: the loop sleeps, the subscriber still registered
C21_Witness ==
    /\ pc = "sleep"
    /\ html = "none"
    /\ response = Exception
    /\ new_listings = <<>>
    /\ seen_ids # {}
    /\ active_connections # <<>>
    /\ \E c \in Conns : Len(inbox[c]) = 2

----------------------------------------------------------------------------
(* The payload of a listing: claims checked under SpecWire *)

\* The fields of the payload that come from the listing
PayloadFields ==
    {"id", "title", "price", "year", "mileage", "fuel", "brand", "model",
     "location", "seller", "url", "image_url", "crawled_at", "transmission",
     "last_updated"}

\* What a listing holds for a field of the payload, wherever the parser
\* that built it keeps it, bar empty strings and None
Populated(listing, field) ==
    LET car_info == Get(listing, "car_info", EmptyDict)
        pricing == Get(listing, "pricing", EmptyDict)
        location == Get(listing, "location", EmptyDict)
        seller == Get(listing, "seller", EmptyDict)
        images == Get(listing, "images", EmptyDict)
        timing == Get(listing, "timing", EmptyDict)
        held ==
          CASE field = "price" ->
                 {Get(pricing, "price_display", ""), Get(pricing, "price", ""),
                  Get(listing, "price", "")}
            [] field = "year" ->
                 {Get(car_info, "year", ""), Get(listing, "year", "")}
            [] field = "mileage" ->
                 {Get(car_info, "mileage", ""), Get(listing, "km", "")}
            [] field = "fuel" ->
                 {Get(car_info, "fuel_type_resolved", ""),
                  Get(car_info, "fuel_type", "")}
            [] field = "brand" -> {Get(car_info, "make", "")}
            [] field = "model" -> {Get(car_info, "model", "")}
            [] field = "location" ->
                 {Get(location, "city", ""), Get(location, "address", "")}
            [] field = "seller" -> {Get(seller, "org_name", "")}
            [] field = "url" ->
                 {Get(listing, "url", ""), Get(listing, "link", "")}
            [] field = "image_url" ->
                 {Get(images, "main_image", ""), Get(images, "thumbnail", ""),
                  Get(listing, "image_url", "")}
            [] field = "transmission" ->
                 {Get(car_info, "transmission_resolved", ""),
                  Get(car_info, "transmission", "")}
            [] field = "last_updated" -> {Get(timing, "last_updated", "")}
            [] OTHER -> {Get(listing, field, "")}
    IN held \ {"", None}

\* C22: the payload made of a listing, of the structured parser or of the
\* markup parser, carries for every field what the listing holds for it,
\* and an empty string, never None, for a field the listing does not
\* hold.
C22_PayloadKeepsPopulatedFields ==
    wire.stage = "payload" =>
        \A field \in PayloadFields :
            /\ wire.payload[field] # None
            /\ IF Populated(wire.listing, field) = {}
               THEN wire.payload[field] = ""
               ELSE wire.payload[field] \in Populated(wire.listing, field)

----------------------------------------------------------------------------
(* The number of subscribers: claim checked under SpecHub *)

\* C23: the number of registered connections never exceeds
\* MAX_CONNECTIONS.
C23_ConnectionsWithinMaximum ==
    Len(active_connections) <= MAX_CONNECTIONS

----------------------------------------------------------------------------
(* The image of the payload: claim checked under SpecWire *)

\* C24: whenever the main image of a converted listing is empty and its
\* thumbnail is not, the image_url of the payload is the thumbnail.
C24_ImageFallsBackToThumbnail ==
    wire.stage = "payload" =>
        LET images == Get(wire.listing, "images", EmptyDict)
        IN (Get(images, "main_image", "") = ""
              /\ Get(images, "thumbnail", "") # "") =>
                 wire.payload.image_url = images.thumbnail

----------------------------------------------------------------------------
(* A broadcast among connects and disconnects: claim checked under SpecHub *)

\* How many times message m is in the sequence box
RECURSIVE Count(_, _)
Count(box, m) ==
    IF box = <<>> THEN 0
    ELSE (IF Head(box) = m THEN 1 ELSE 0) + Count(Tail(box), m)

\* C25: when a broadcast returns, every connection that was registered
\* when it was called and still is, and whose send did not raise, has been
\* sent the message of the broadcast exactly once, whatever connects and
\* disconnects happened while the broadcast was suspended.
C25_RegisteredThroughoutReceivesOnce ==
    [][BroadcastReturns =>
         \A c \in (audience \cap Range(active_connections)) \ Raised :
             Count(inbox[c], Payload) = 1]_vars

----------------------------------------------------------------------------
(* From detection to broadcast: claim checked under SpecRelay *)

\* Every id of seen_ids has had its listing passed to broadcast, or, while
\* the loop is broadcasting, waits for it behind the listing being
\* broadcast
NothingLost ==
    IF pc = "send"
    THEN /\ bcast # <<>>
         /\ Head(bcast).id \in passed
         /\ IdsOf(Tail(bcast)) \cap passed = {}
         /\ seen_ids = passed \cup IdsOf(Tail(bcast))
    ELSE /\ bcast = <<>>
         /\ seen_ids = passed

\* C26: ids enter seen_ids only in the detection of a cycle; the listings
\* of the ids a cycle adds are passed to broadcast in that cycle, in
\* discovery order, each when it has not been passed before; neither an
\* error nor stop() ends the cycle before all of them are passed, and the
\* next cycle starts with every id of seen_ids passed.
C26_DetectedListingsBroadcastOnce ==
    [][/\ NothingLost /\ NothingLost'
       /\ seen_ids' # seen_ids => Detected
       /\ Detected =>
             /\ IdsOf(new_listings') = seen_ids' \ seen_ids
             /\ DistinctIds(new_listings')
             /\ pc' \in {"send", "sleep", "sleep_err"}
             /\ pc' = "send" => bcast' = new_listings'
             /\ pc' = "sleep" => passed' = passed \cup IdsOf(new_listings')
             /\ pc' = "sleep_err" => seen_ids' = seen_ids
       /\ (pc' = "send" /\ (pc # "send" \/ bcast' # bcast)) =>
             /\ Head(bcast').id \notin passed
             /\ passed' = passed \cup {Head(bcast').id}
       /\ (pc = "send" /\ pc' = "send") => bcast' \in {bcast, Tail(bcast)}
       /\ (pc = "send" /\ pc' # "send") =>
             /\ pc' = "sleep"
             /\ passed' = passed \cup IdsOf(Tail(bcast))
       /\ (pc # "get" /\ pc' = "get") => seen_ids = passed]_vars

\* stop() was called while the second cycle is broadcasting the first of
\* the two new listings it detected
C26_Witness ==
    /\ pc = "send"
    /\ shutdown
    /\ stats.total_requests = 2
    /\ Len(new_listings) = 2
    /\ bcast = new_listings
    /\ Cardinality(seen_ids) = 2
    /\ Cardinality(passed) = 1

----------------------------------------------------------------------------
(* Failed proxies and fetches: claim checked under SpecProxy *)

\* C27: fetch_page never uses a proxy that is marked failed and never
\* clears failure marks: a mark goes away only through POST /proxy/reset,
\* whatever fetches, markings and replenishments of the pool came before.
C27_FailedProxyUnusedUntilReset ==
    [][/\ FetchCalled =>
             /\ proxy' \notin failed_proxies
             /\ failed_proxies' = failed_proxies
       /\ ~(failed_proxies \subseteq failed_proxies') => ApiProxyReset]_vars

\* A request is in flight over the one proxy of the pool that is not marked
\* failed, after a request over the other one failed
C27_Witness ==
    /\ pc = "get"
    /\ proxy # NoProxy
    /\ failed_proxies # {}
    /\ failed_proxies \subseteq proxy_list
    /\ proxy \notin failed_proxies
    /\ stats.failed_requests = 1

----------------------------------------------------------------------------
(* Contacts of the free-proxy sources: claim checked under SpecProxy *)

\* The step in which a fetch_free_proxies call of caller c passes its early
\* returns and goes on to contact the sources
ContactStarts(c) ==
    IF c = "loop"
    THEN pc' \in {"ffp_init", "ffp"} /\ pc' # pc
    ELSE ffp_now[c] = NoTime /\ ffp_now'[c] # NoTime

\* C28: a fetch_free_proxies call contacts the sources only when no other
\* call is contacting them and when the last contact, whatever it
\* returned, began at least PROXY_FETCH_INTERVAL earlier.
C28_SourcesContactedOncePerInterval ==
    [][\A c \in Callers :
          ContactStarts(c) =>
            /\ \A d \in Callers \ {c} : ffp_now[d] = NoTime
            /\ ffp_now[c] # NoTime =>
                 clock - ffp_now[c] >= PROXY_FETCH_INTERVAL
            /\ last_fetch_time' # NoTime =>
                 clock - last_fetch_time' >= PROXY_FETCH_INTERVAL]_vars

----------------------------------------------------------------------------
(* The request counters: claim checked under Spec *)

\* C29: whenever no fetch_page call is in progress, total_requests is the
\* sum of successful_requests and failed_requests.
C29_RequestCountersAddUp ==
    pc \notin {"get", "text"} =>
        stats.total_requests =
            stats.successful_requests + stats.failed_requests

----------------------------------------------------------------------------
(* The private-seller flags: claim checked under SpecWire *)

\* The advert says its seller is private: it has an ISPRIVATE attribute
\* with values, and the first value of the last such attribute is '1'
SaysPrivate(advert) ==
    LET at == {i \in DOMAIN advert.attribute :
                  /\ advert.attribute[i].name = "ISPRIVATE"
                  /\ advert.attribute[i].values # <<>>}
    IN /\ at # {}
       /\ advert.attribute[CHOOSE i \in at : \A j \in at : j <= i].values[1]
             = "1"

\* C30: in the car_model extract_car_from_advert builds of an advert,
\* seller.is_private equals pricing.is_private, and both are true exactly
\* when the advert says its seller is private.
C30_SellerPrivateEqualsPricingPrivate ==
    (wire.from = "advert" /\ wire.stage # "input") =>
        /\ wire.listing.seller.is_private = wire.listing.pricing.is_private
        /\ wire.listing.pricing.is_private = SaysPrivate(wire.input)

====
